---------------------------- MODULE Spec2Model ----------------------------
(***************************************************************************)
(* Model of rez/bind/_utils.py: executable lookup, version extraction from *)
(* a tool's output, folder-based version discovery and the configuration   *)
(* driven path resolvers.                                                  *)
(*                                                                         *)
(* Python strings are sequences of characters, so that strip, split,       *)
(* replace and join are computed and not assumed.  An ASCII character is   *)
(* the string of that character; any other character is the string of its  *)
(* code point, "U+00E9" for e-acute, "U+3000" for the ideographic space.   *)
(* Paths are records [abs, comps]: an absolute flag and the '/'-separated  *)
(* parts.                                                                  *)
(***************************************************************************)
EXTENDS Integers, Sequences, FiniteSets, TLC

VARIABLES config, fs, call, result

vars == <<config, fs, call, result>>

(***************************************************************************)
(* Bounds of the model.                                                    *)
(***************************************************************************)
MaxLines == 2

(***************************************************************************)
(* Python str and list primitives.                                         *)
(***************************************************************************)
\* The characters str.strip() and str.split() take for whitespace: those for
\* which str.isspace() holds.  The ASCII ones are written as they are; the
\* others by their code point, NEL as "U+0085", the ideographic space as
\* "U+3000".
Whitespace ==
    {" ", "\n", "\t", "\r", "\f", "", "", "", "", "",
     "U+0085", "U+00A0", "U+1680",
     "U+2000", "U+2001", "U+2002", "U+2003", "U+2004", "U+2005", "U+2006",
     "U+2007", "U+2008", "U+2009", "U+200A",
     "U+2028", "U+2029", "U+202F", "U+205F", "U+3000"}

AlnumChars == {"0", "1", "2", "3", "7", "b", "v", "T", "_"}

RECURSIVE LStrip(_)
LStrip(s) ==
    IF s = <<>> THEN <<>>
    ELSE IF Head(s) \in Whitespace THEN LStrip(Tail(s)) ELSE s

RECURSIVE RStrip(_)
RStrip(s) ==
    IF s = <<>> THEN <<>>
    ELSE IF s[Len(s)] \in Whitespace THEN RStrip(SubSeq(s, 1, Len(s) - 1)) ELSE s

\* str.strip()
Strip(s) == RStrip(LStrip(s))

\* str.split(sep) for a one-character sep: empty fields are kept and the
\* result always has at least one element.
RECURSIVE SplitAcc(_, _, _, _)
SplitAcc(s, sep, cur, acc) ==
    IF s = <<>> THEN Append(acc, cur)
    ELSE IF Head(s) = sep THEN SplitAcc(Tail(s), sep, <<>>, Append(acc, cur))
    ELSE SplitAcc(Tail(s), sep, Append(cur, Head(s)), acc)

Split(s, sep) == SplitAcc(s, sep, <<>>, <<>>)

\* str.split() without argument: runs of whitespace separate, no empty field.
RECURSIVE SplitWsAcc(_, _, _)
SplitWsAcc(s, cur, acc) ==
    IF s = <<>> THEN (IF cur = <<>> THEN acc ELSE Append(acc, cur))
    ELSE IF Head(s) \in Whitespace
         THEN SplitWsAcc(Tail(s), <<>>, IF cur = <<>> THEN acc ELSE Append(acc, cur))
         ELSE SplitWsAcc(Tail(s), Append(cur, Head(s)), acc)

SplitWs(s) == SplitWsAcc(s, <<>>, <<>>)

\* str.replace(a, b) for one-character a and b
Replace(s, a, b) == [i \in 1..Len(s) |-> IF s[i] = a THEN b ELSE s[i]]

\* sep.join(parts)
RECURSIVE Join(_, _)
Join(parts, sep) ==
    IF parts = <<>> THEN <<>>
    ELSE IF Len(parts) = 1 THEN parts[1]
    ELSE parts[1] \o <<sep>> \o Join(Tail(parts), sep)

\* list[i]: valid for -len <= i < len, IndexError otherwise
InRange(l, i) == -Len(l) <= i /\ i < Len(l)

Index(l, i) == IF i >= 0 THEN l[i + 1] ELSE l[Len(l) + i + 1]

\* list[:n]
SliceTo(l, n) ==
    LET stop == IF n >= 0 THEN (IF n < Len(l) THEN n ELSE Len(l))
                ELSE (IF Len(l) + n > 0 THEN Len(l) + n ELSE 0)
    IN  SubSeq(l, 1, stop)


(***************************************************************************)
(* POSIX paths.  A path is [abs, comps]: whether the string starts with a  *)
(* slash, and the parts of the rest between the slashes.  "/opt/./x/" is   *)
(* [abs |-> TRUE, comps |-> <<"opt", ".", "x", "">>], "//opt" is           *)
(* [abs |-> TRUE, comps |-> <<"", "opt">>], "/" has no parts, and "" is    *)
(* the relative path without parts.                                        *)
(***************************************************************************)
Path(abs, comps) == [abs |-> abs, comps |-> comps]

\* Whether the string of the path ends with a slash.
EndsWithSep(a) ==
    IF a.comps = <<>> THEN a.abs ELSE a.comps[Len(a.comps)] = ""

\* The parts of a + b for a relative b, where a ends with a slash or is
\* empty: the text of b continues the last part of a.
Continue(a, b) ==
    IF a.comps = <<>> THEN b.comps
    ELSE IF b.comps = <<>> THEN a.comps
    ELSE SubSeq(a.comps, 1, Len(a.comps) - 1) \o b.comps

\* os.path.join(a, b): an absolute b replaces a; b is appended to a, after a
\* separator unless a is empty or already ends with one.
PathJoin(a, b) ==
    IF b.abs THEN b
    ELSE IF (~a.abs /\ a.comps = <<>>) \/ EndsWithSep(a)
         THEN Path(a.abs, Continue(a, b))
         ELSE Path(a.abs, a.comps \o (IF b.comps = <<>> THEN <<"">> ELSE b.comps))

\* The loop of os.path.normpath: empty and "." parts are dropped, ".."
\* removes the part before it (it is dropped at the root and kept at the
\* start of a relative path).
RECURSIVE NormLoop(_, _, _)
NormLoop(abs, comps, acc) ==
    IF comps = <<>> THEN acc
    ELSE LET c == Head(comps)
         IN  IF c \in {"", "."} THEN NormLoop(abs, Tail(comps), acc)
             ELSE IF c # ".." \/ (~abs /\ acc = <<>>)
                       \/ (acc # <<>> /\ acc[Len(acc)] = "..")
                  THEN NormLoop(abs, Tail(comps), Append(acc, c))
                  ELSE IF acc # <<>>
                       THEN NormLoop(abs, Tail(comps), SubSeq(acc, 1, Len(acc) - 1))
                       ELSE NormLoop(abs, Tail(comps), acc)

\* Exactly two leading slashes are kept by normpath, three or more are one.
TwoSlashes(p) ==
    /\ p.abs
    /\ Len(p.comps) >= 2
    /\ p.comps[1] = ""
    /\ ~(Len(p.comps) >= 3 /\ p.comps[2] = "")

\* The parts of os.path.normpath(p).
NormComps(p) ==
    LET n == NormLoop(p.abs, p.comps, <<>>)
    IN  IF TwoSlashes(p) THEN (IF n = <<>> THEN <<"", "">> ELSE <<"">> \o n)
        ELSE IF ~p.abs /\ n = <<>> THEN <<".">>
        ELSE n

\* os.path.normpath; the empty result is ".".
NormPath(p) == Path(p.abs, NormComps(p))

(***************************************************************************)
(* The file system: the directories and the regular files, each named by   *)
(* the parts of its absolute path.  The root is always a directory and is  *)
(* the working directory; there are no symbolic links.                     *)
(***************************************************************************)
IsDirNode(f, n) == n = <<>> \/ n \in f.dirs

IsNode(f, n) == IsDirNode(f, n) \/ n \in f.files

\* Name resolution by the kernel, part by part from the node cur: every part
\* is looked up in a directory; "" and "." name that directory, ".." its
\* parent, a name its entry.  The result is the node reached, or a failure.
RECURSIVE Walk(_, _, _)
Walk(f, comps, cur) ==
    IF comps = <<>> THEN [ok |-> TRUE, node |-> cur]
    ELSE IF ~IsDirNode(f, cur) THEN [ok |-> FALSE, node |-> <<>>]
    ELSE LET c == Head(comps)
         IN  IF c \in {"", "."} THEN Walk(f, Tail(comps), cur)
             ELSE IF c = ".."
                  THEN Walk(f, Tail(comps),
                            IF cur = <<>> THEN <<>> ELSE SubSeq(cur, 1, Len(cur) - 1))
                  ELSE IF IsNode(f, Append(cur, c))
                       THEN Walk(f, Tail(comps), Append(cur, c))
                       ELSE [ok |-> FALSE, node |-> <<>>]

\* stat(p): the empty path names nothing.
Resolve(f, p) ==
    IF ~p.abs /\ p.comps = <<>> THEN [ok |-> FALSE, node |-> <<>>]
    ELSE Walk(f, p.comps, <<>>)

IsDir(f, p) == Resolve(f, p).ok /\ IsDirNode(f, Resolve(f, p).node)

IsFile(f, p) == Resolve(f, p).ok /\ Resolve(f, p).node \in f.files

Exists(f, p) == Resolve(f, p).ok

\* The names os.listdir finds in a directory.
ListDirNames(f, p) ==
    IF ~IsDir(f, p) THEN {}
    ELSE LET d == Resolve(f, p).node
         IN  {e[Len(e)] : e \in {x \in f.dirs \cup f.files :
                                   Len(x) = Len(d) + 1
                                   /\ SubSeq(x, 1, Len(x) - 1) = d}}

\* rez.util.which: the path of the first match on the executable search path,
\* or None.
which(f, name) ==
    IF name \in f.onpath
    THEN [none |-> FALSE, path |-> Path(TRUE, <<"usr", "bin", name>>)]
    ELSE [none |-> TRUE, path |-> Path(FALSE, <<>>)]

(***************************************************************************)
(* rez.vendor.version.version.Version: an ordered sequence of alphanumeric *)
(* tokens parsed from a dotted string.  The empty string is the empty      *)
(* version; an empty token or a character outside [a-zA-Z0-9_] is a        *)
(* VersionError.                                                           *)
(***************************************************************************)
ValidToken(tok) == tok # <<>> /\ \A i \in 1..Len(tok) : tok[i] \in AlnumChars

Version(strver) ==
    IF strver = <<>> THEN [ok |-> TRUE, tokens |-> <<>>]
    ELSE LET toks == Split(strver, ".")
         IN  IF \A i \in 1..Len(toks) : ValidToken(toks[i])
             THEN [ok |-> TRUE, tokens |-> toks]
             ELSE [ok |-> FALSE, tokens |-> <<>>]

(***************************************************************************)
(* extract_version                                                         *)
(***************************************************************************)
\* Outcomes of a call: a returned value or the exception that escapes.
Outcome(kind, cond, cause, tokens, line, code, stderr) ==
    [kind |-> kind, cond |-> cond, cause |-> cause, tokens |-> tokens,
     line |-> line, code |-> code, stderr |-> stderr]

\* version_arg is a str or a list of str; a str becomes a one-element list.
VersionArgList(version_arg) ==
    IF version_arg.isStr THEN <<version_arg.str>> ELSE version_arg.list

CommandArgs(exepath, version_arg) == <<exepath>> \o VersionArgList(version_arg)

\* ParseVersion with the rank cap off by one: toks[:version_rank - 1].
ParseVersionShortCap(line, word_index, version_rank) ==
    LET words == SplitWs(line)
    IN  IF ~InRange(words, word_index)
        THEN Outcome("RezBindError", "version parse failed", "IndexError",
                     <<>>, line, 0, <<>>)
        ELSE LET strver == Index(words, word_index)
                 toks   == SplitWs(Replace(Replace(strver, ".", " "), "-", " "))
                 capped == Join(SliceTo(toks, version_rank - 1), ".")
                 v      == Version(capped)
             IN  IF v.ok
                 THEN Outcome("Version", "", "", v.tokens, line, 0, <<>>)
                 ELSE Outcome("RezBindError", "version parse failed",
                              "VersionError", <<>>, line, 0, <<>>)

\* The try block: word selection, punctuation normalisation, rank cap, parse.
ParseVersion(line, word_index, version_rank) ==
    LET words == SplitWs(line)
    IN  IF ~InRange(words, word_index)
        THEN Outcome("RezBindError", "version parse failed", "IndexError",
                     <<>>, line, 0, <<>>)
        ELSE LET strver == Index(words, word_index)
                 toks   == SplitWs(Replace(Replace(strver, ".", " "), "-", " "))
                 capped == Join(SliceTo(toks, version_rank), ".")
                 v      == Version(capped)
             IN  IF v.ok
                 THEN Outcome("Version", "", "", v.tokens, line, 0, <<>>)
                 ELSE Outcome("RezBindError", "version parse failed",
                              "VersionError", <<>>, line, 0, <<>>)

\* extract_version that treats a failed run as a failure only when the tool
\* wrote to stderr.
extract_versionQuietFailure(stdout, stderr, returncode, line_index, word_index, version_rank) ==
    IF returncode # 0 /\ stderr # <<>>
    THEN Outcome("RezBindError", "execution failed", "", <<>>, <<>>,
                 returncode, stderr)
    ELSE LET lines == Split(Strip(stdout), "\n")
         IN  IF ~InRange(lines, line_index)
             THEN Outcome("IndexError", "", "", <<>>, <<>>, 0, <<>>)
             ELSE ParseVersion(Strip(Index(lines, line_index)),
                               word_index, version_rank)

\* extract_version that splits the raw output, without stripping it first.
extract_versionRawSplit(stdout, stderr, returncode, line_index, word_index, version_rank) ==
    IF returncode # 0
    THEN Outcome("RezBindError", "execution failed", "", <<>>, <<>>,
                 returncode, stderr)
    ELSE LET lines == Split(stdout, "\n")
         IN  IF ~InRange(lines, line_index)
             THEN Outcome("IndexError", "", "", <<>>, <<>>, 0, <<>>)
             ELSE ParseVersion(Strip(Index(lines, line_index)),
                               word_index, version_rank)

extract_version(stdout, stderr, returncode, line_index, word_index, version_rank) ==
    IF returncode # 0
    THEN Outcome("RezBindError", "execution failed", "", <<>>, <<>>,
                 returncode, stderr)
    ELSE LET lines == Split(Strip(stdout), "\n")
         IN  IF ~InRange(lines, line_index)
             THEN Outcome("IndexError", "", "", <<>>, <<>>, 0, <<>>)
             ELSE ParseVersion(Strip(Index(lines, line_index)),
                               word_index, version_rank)

(***************************************************************************)
(* Inputs of extract_version: what the child process printed and how the   *)
(* caller asked for it to be read.                                         *)
(***************************************************************************)
WordVersion == <<"2", ".", "1", "0", ".", "3", "-", "b", ".", "7">>
WordBad     == <<"1", ".", "+">>

Words == {WordVersion, WordBad}

WordCounts == 0..2

WordSeqs == UNION {[1..n -> Words] : n \in WordCounts}

TextLines == {Join(ws, " ") : ws \in WordSeqs}

LineSeqs == UNION {[1..n -> TextLines] : n \in 1..MaxLines}

\* The same lines from a tool that separates words by ideographic spaces.
WideLines == {Join(ws, "U+3000") : ws \in WordSeqs}

WideLineSeqs == UNION {[1..n -> WideLines] : n \in 1..MaxLines}

Padded(s) == <<" ", "U+2003">> \o s \o <<"\r", "\n">>

Stdouts == {Join(ls, "\n") : ls \in LineSeqs}
             \cup {Padded(Join(ls, "\n")) : ls \in WideLineSeqs}

Stderrs == {<<>>, <<"n", "o", "t", " ", "f", "o", "u", "n", "d">>}

ReturnCodes == {0, 1}

LineIndexes == -MaxLines..(MaxLines - 1)

WordIndexes == {-1, 0, 1}

VersionRanks == {2, 3, 6}

VersionArgs == {[isStr |-> TRUE, str |-> "-V", list |-> <<>>],
                [isStr |-> FALSE, str |-> "", list |-> <<"-version">>]}

Idle == [op |-> "idle"]

NoResult == [kind |-> "none"]

ExtractVersion ==
    /\ call = Idle
    /\ \E version_arg \in VersionArgs, stdout \in Stdouts, stderr \in Stderrs,
          returncode \in ReturnCodes, line_index \in LineIndexes,
          word_index \in WordIndexes, version_rank \in VersionRanks :
          /\ call' = [op |-> "extract_version",
                      args |-> CommandArgs("tool", version_arg),
                      stdout |-> stdout, stderr |-> stderr,
                      returncode |-> returncode, line_index |-> line_index,
                      word_index |-> word_index, version_rank |-> version_rank]
          /\ result' = extract_version(stdout, stderr, returncode, line_index,
                                       word_index, version_rank)
    /\ UNCHANGED <<config, fs>>

\* The call has returned or raised; the caller may make the next one.
Return ==
    /\ call # Idle
    /\ call' = Idle
    /\ result' = NoResult
    /\ UNCHANGED <<config, fs>>

(***************************************************************************)
(* find_exe                                                                *)
(***************************************************************************)
EmptyPath == Path(FALSE, <<>>)

NoPath == [none |-> TRUE, path |-> EmptyPath]

SomePath(p) == [none |-> FALSE, path |-> p]

ExeOutcome(kind, cond, path, searched) ==
    [kind |-> kind, cond |-> cond, path |-> path, searched |-> searched]

\* find_exe that reports a missing explicit path as a RezBindError.
find_exeTypedMissing(f, name, filepath) ==
    IF ~filepath.none /\ filepath.path # EmptyPath
    THEN IF ~Exists(f, filepath.path)
         THEN ExeOutcome("RezBindError", "not found", EmptyPath, FALSE)
         ELSE IF ~IsFile(f, filepath.path)
              THEN ExeOutcome("RezBindError", "not a file", EmptyPath, FALSE)
              ELSE ExeOutcome("path", "", filepath.path, FALSE)
    ELSE LET found == which(f, name)
         IN  IF found.none \/ found.path = EmptyPath
             THEN ExeOutcome("RezBindError", "could not find executable",
                             EmptyPath, TRUE)
             ELSE ExeOutcome("path", "", found.path, TRUE)

\* A missing explicit path is opened, and the open raises the IOError.
find_exe(f, name, filepath) ==
    IF ~filepath.none /\ filepath.path # EmptyPath
    THEN IF ~Exists(f, filepath.path)
         THEN ExeOutcome("IOError", "", EmptyPath, FALSE)
         ELSE IF ~IsFile(f, filepath.path)
              THEN ExeOutcome("RezBindError", "not a file", EmptyPath, FALSE)
              ELSE ExeOutcome("path", "", filepath.path, FALSE)
    ELSE LET found == which(f, name)
         IN  IF found.none \/ found.path = EmptyPath
             THEN ExeOutcome("RezBindError", "could not find executable",
                             EmptyPath, TRUE)
             ELSE ExeOutcome("path", "", found.path, TRUE)

(***************************************************************************)
(* get_app_folders_vers.  test_folder is None or a predicate, given by the *)
(* set of paths it holds for; listing is the order in which os.listdir     *)
(* happens to return the names.                                            *)
(***************************************************************************)
FoldersOutcome(kind, cond, value, listed, tested) ==
    [kind |-> kind, cond |-> cond, value |-> value, listed |-> listed,
     tested |-> tested]

Holds(test_folder, p) == p \in test_folder.holds

VersDirs(f, base, listing) ==
    LET entry(n) == PathJoin(base, Path(FALSE, <<n>>))
        dirs     == SelectSeq(listing, LAMBDA n : IsDir(f, entry(n)))
    IN  [i \in 1..Len(dirs) |-> NormPath(entry(dirs[i]))]

\* get_app_folders_vers that keeps every entry of the listing, files too.
get_app_folders_versAllEntries(f, appname, install_root, test_folder, listing) ==
    LET base == NormPath(PathJoin(install_root, appname))
        all  == [i \in 1..Len(listing) |->
                    NormPath(PathJoin(base, Path(FALSE, <<listing[i]>>)))]
    IN  IF ~Exists(f, base) \/ ~IsDir(f, base)
        THEN FoldersOutcome("RezBindError", "base path missing", <<>>, FALSE, <<>>)
        ELSE IF ~test_folder.none /\ Holds(test_folder, base)
        THEN FoldersOutcome("list", "", <<base>>, FALSE, <<base>>)
        ELSE IF ~test_folder.none
        THEN FoldersOutcome("list", "",
                            SelectSeq(all, LAMBDA d : Holds(test_folder, d)),
                            TRUE, <<base>> \o all)
        ELSE FoldersOutcome("list", "", all, TRUE, <<>>)

\* get_app_folders_vers that asks test_folder about the base before it has
\* checked that the base is a directory.
get_app_folders_versTestFirst(f, appname, install_root, test_folder, listing) ==
    LET base     == NormPath(PathJoin(install_root, appname))
        versdirs == VersDirs(f, base, listing)
    IN  IF ~test_folder.none /\ Holds(test_folder, base)
        THEN FoldersOutcome("list", "", <<base>>, FALSE, <<base>>)
        ELSE IF ~Exists(f, base) \/ ~IsDir(f, base)
        THEN FoldersOutcome("RezBindError", "base path missing", <<>>, FALSE,
                            IF test_folder.none THEN <<>> ELSE <<base>>)
        ELSE IF ~test_folder.none
        THEN FoldersOutcome("list", "",
                            SelectSeq(versdirs, LAMBDA d : Holds(test_folder, d)),
                            TRUE, <<base>> \o versdirs)
        ELSE FoldersOutcome("list", "", versdirs, TRUE, <<>>)

get_app_folders_vers(f, appname, install_root, test_folder, listing) ==
    LET base     == NormPath(PathJoin(install_root, appname))
        versdirs == VersDirs(f, base, listing)
    IN  IF ~Exists(f, base) \/ ~IsDir(f, base)
        THEN FoldersOutcome("RezBindError", "base path missing", <<>>, FALSE, <<>>)
        ELSE IF ~test_folder.none /\ Holds(test_folder, base)
        THEN FoldersOutcome("list", "", <<base>>, FALSE, <<base>>)
        ELSE IF ~test_folder.none
        THEN FoldersOutcome("list", "",
                            SelectSeq(versdirs, LAMBDA d : Holds(test_folder, d)),
                            TRUE, <<base>> \o versdirs)
        ELSE FoldersOutcome("list", "", versdirs, TRUE, <<>>)

(***************************************************************************)
(* Configuration.  An attribute of config is absent (hasattr is false),    *)
(* None, or a value.                                                       *)
(***************************************************************************)
Absent(v) == [has |-> FALSE, none |-> TRUE, val |-> v]

NoneAttr(v) == [has |-> TRUE, none |-> TRUE, val |-> v]

Attr(v) == [has |-> TRUE, none |-> FALSE, val |-> v]

\* hasattr(config, name) and config.name, for a str, a bool, a path
HasText(a) == a.has /\ ~a.none /\ a.val # <<>>

HasFlag(a) == a.has /\ ~a.none /\ a.val

HasPathValue(a) == a.has /\ ~a.none /\ a.val # EmptyPath

(***************************************************************************)
(* get_implicit_system_variant                                             *)
(***************************************************************************)
\* s.split('==')[0]: the text before the first "==", all of s without one
RECURSIVE BeforeDoubleEquals(_)
BeforeDoubleEquals(s) ==
    IF s = <<>> THEN <<>>
    ELSE IF Len(s) >= 2 /\ s[1] = "=" /\ s[2] = "=" THEN <<>>
    ELSE <<Head(s)>> \o BeforeDoubleEquals(Tail(s))

\* s[1:]
DropFirst(s) == IF s = <<>> THEN <<>> ELSE Tail(s)

ImplicitNames(implicit_packages) ==
    {DropFirst(BeforeDoubleEquals(implicit_packages[i])) :
        i \in 1..Len(implicit_packages)}

\* get_implicit_system_variant that keeps the '~' in the package names.
get_implicit_system_variantKeepTilde(cfg) ==
    LET names == {BeforeDoubleEquals(cfg.implicit_packages[i]) :
                    i \in 1..Len(cfg.implicit_packages)}
    IN  SelectSeq(cfg.system_variant, LAMBDA var : Split(var, "-")[1] \in names)

get_implicit_system_variant(cfg) ==
    LET names == ImplicitNames(cfg.implicit_packages)
    IN  SelectSeq(cfg.system_variant, LAMBDA var : Split(var, "-")[1] \in names)

(***************************************************************************)
(* get_use_folders_vers_root.  arg is None or a str.                       *)
(***************************************************************************)
NoneStr == [none |-> TRUE, val |-> <<>>]

Str(v) == [none |-> FALSE, val |-> v]

DefaultRoot == <<"/", "o", "p", "t">>

\* get_use_folders_vers_root in which the configuration wins over the
\* argument.
get_use_folders_vers_rootConfigFirst(cfg, arg) ==
    IF HasFlag(cfg.bind_use_folders_vers)
    THEN IF HasText(cfg.bind_use_folders_vers_root)
            /\ Strip(cfg.bind_use_folders_vers_root.val) # <<>>
         THEN Str(cfg.bind_use_folders_vers_root.val)
         ELSE Str(DefaultRoot)
    ELSE arg

get_use_folders_vers_root(cfg, arg) ==
    IF (arg.none \/ arg.val = <<>>) /\ HasFlag(cfg.bind_use_folders_vers)
    THEN IF HasText(cfg.bind_use_folders_vers_root)
            /\ Strip(cfg.bind_use_folders_vers_root.val) # <<>>
         THEN Str(cfg.bind_use_folders_vers_root.val)
         ELSE Str(DefaultRoot)
    ELSE arg

(***************************************************************************)
(* get_install_path.  pkgtype is None or a str.                            *)
(***************************************************************************)
NoType == [none |-> TRUE, name |-> ""]

Type(n) == [none |-> FALSE, name |-> n]

InList(x, l) == \E i \in 1..Len(l) : l[i] = x

\* An exception that escapes the call.
Raised(exc) == [raised |-> exc]

\* The value returned, or the TypeError of len(None) when
\* release_packages_types is None.
get_install_path(cfg, install_path, pkgtype) ==
    IF /\ install_path = cfg.release_packages_path
       /\ ~pkgtype.none
       /\ HasPathValue(cfg.release_packages_root)
       /\ cfg.release_packages_types.has
    THEN IF cfg.release_packages_types.none THEN Raised("TypeError")
         ELSE IF /\ Len(cfg.release_packages_types.val) > 0
                 /\ InList(pkgtype.name, cfg.release_packages_types.val)
              THEN NormPath(PathJoin(cfg.release_packages_root.val,
                                     Path(FALSE, <<pkgtype.name>>)))
              ELSE install_path
    ELSE install_path

(***************************************************************************)
(* make_dirs(dirs...): the joined path is created with os.makedirs, unless *)
(* it exists.  os.makedirs creates the missing directories above the path  *)
(* first, then the path itself with mkdir.                                 *)
(***************************************************************************)
\* os.path.join(*dirs)
RECURSIVE JoinAll(_)
JoinAll(dirs) ==
    IF Len(dirs) = 1 THEN dirs[1]
    ELSE PathJoin(JoinAll(SubSeq(dirs, 1, Len(dirs) - 1)), dirs[Len(dirs)])

\* The parts of a path without its trailing slashes.
RECURSIVE StripSeps(_)
StripSeps(comps) ==
    IF comps # <<>> /\ comps[Len(comps)] = ""
    THEN StripSeps(SubSeq(comps, 1, Len(comps) - 1))
    ELSE comps

\* os.path.split: what is before the last slash, without its trailing
\* slashes unless it is slashes only, and what is after the last slash.
PathSplit(p) ==
    IF p.comps = <<>> THEN [head |-> p, tail |-> ""]
    ELSE LET front == SubSeq(p.comps, 1, Len(p.comps) - 1)
         IN  [head |-> IF front # <<>> /\ StripSeps(front) = <<>>
                       THEN Path(p.abs, Append(front, ""))
                       ELSE Path(p.abs, StripSeps(front)),
              tail |-> p.comps[Len(p.comps)]]

\* mkdir(2): the parent must resolve to a directory and the name be free;
\* "." and ".." always exist.
mkdir(f, p) ==
    LET comps == StripSeps(p.comps)
    IN  IF comps = <<>>
        THEN [fs |-> f, err |-> IF p.abs THEN "FileExistsError" ELSE "OSError"]
        ELSE LET parent == Walk(f, SubSeq(comps, 1, Len(comps) - 1), <<>>)
                 last   == comps[Len(comps)]
             IN  IF ~parent.ok \/ ~IsDirNode(f, parent.node)
                 THEN [fs |-> f, err |-> "OSError"]
                 ELSE IF last \in {".", ".."} \/ IsNode(f, Append(parent.node, last))
                      THEN [fs |-> f, err |-> "FileExistsError"]
                      ELSE [fs  |-> [f EXCEPT !.dirs = @ \cup {Append(parent.node, last)}],
                            err |-> "none"]

\* os.makedirs: the file system left behind and the error raised, if any.
\* A FileExistsError from the directories above is ignored.
RECURSIVE makedirs(_, _)
makedirs(f, name) ==
    LET first   == PathSplit(name)
        parts   == IF first.tail = "" THEN PathSplit(first.head) ELSE first
        recurse == /\ parts.head.abs \/ parts.head.comps # <<>>
                   /\ parts.tail # ""
                   /\ ~Exists(f, parts.head)
        above   == IF recurse THEN makedirs(f, parts.head)
                   ELSE [fs |-> f, err |-> "none"]
    IN  IF recurse /\ above.err = "OSError" THEN above
        ELSE IF recurse /\ parts.tail = "."
             THEN [fs |-> above.fs, err |-> "none"]
             ELSE mkdir(above.fs, name)

\* The file system make_dirs leaves behind.
make_dirs_fs(f, dirs) ==
    LET path == JoinAll(dirs)
    IN  IF Exists(f, path) THEN f ELSE makedirs(f, path).fs

\* The path make_dirs returns, or the OSError of os.makedirs.
make_dirs(f, dirs) ==
    LET path == JoinAll(dirs)
    IN  IF Exists(f, path) \/ makedirs(f, path).err = "none" THEN path
        ELSE Raised("OSError")

(***************************************************************************)
(* The environments the calls run in.                                      *)
(***************************************************************************)
MaxEntries == 2
MaxImplicit == 2

Orderings(S) ==
    {l \in [1..Cardinality(S) -> S] : \A i, j \in 1..Cardinality(S) :
                                          i # j => l[i] # l[j]}

SeqsUpTo(S, n) == UNION {[1..k -> S] : k \in 0..n}

\* /opt/houdini is missing, a file, or a directory whose entries are each
\* missing, a file or a directory; python may be on the search path.
OptDir == <<"opt">>

AppDir == <<"opt", "houdini">>

EntryNameList == <<"hfs17", "hfs18", "notes">>

EntryNames == {EntryNameList[i] : i \in 1..MaxEntries}

PythonExe == <<"usr", "bin", "python">>

AppLayouts ==
    {[dirs |-> {OptDir}, files |-> {}], [dirs |-> {OptDir}, files |-> {AppDir}]}
      \cup {[dirs  |-> {OptDir, AppDir}
                        \cup {Append(AppDir, n) : n \in {m \in EntryNames : k[m] = "dir"}},
             files |-> {Append(AppDir, n) : n \in {m \in EntryNames : k[m] = "file"}}] :
               k \in [EntryNames -> {"none", "dir", "file"}]}

FileSystems ==
    {[dirs   |-> l.dirs \cup (IF py THEN {<<"usr">>, <<"usr", "bin">>} ELSE {}),
      files  |-> l.files \cup (IF py THEN {PythonExe} ELSE {}),
      onpath |-> IF py THEN {"python"} ELSE {}] :
        l \in AppLayouts, py \in BOOLEAN}

BaseFs ==
    [dirs   |-> {OptDir, AppDir, Append(AppDir, "hfs17"), <<"usr">>, <<"usr", "bin">>},
     files  |-> {PythonExe},
     onpath |-> {"python"}]

ImplicitOs   == <<"~", "o", "s", "=", "=", "x">>
ImplicitArch == <<"~", "a", "r", "=", "=", "a">>
ImplicitBare == <<"o", "s", "=", "=", "x">>

ImplicitEntries == {ImplicitOs, ImplicitArch, ImplicitBare}

TagPlatform == <<"p", "l", "-", "l">>
TagArch     == <<"a", "r", "-", "a">>
TagOs       == <<"o", "s", "-", "x", "-", "1">>
TagS        == <<"s", "-", "1">>

VariantTags == {TagPlatform, TagArch, TagOs, TagS}

SystemVariants ==
    {v \in SeqsUpTo(VariantTags, 3) : \A i, j \in 1..Len(v) : i # j => v[i] # v[j]}

ReleasePath == Path(TRUE, <<"pkgs", "release">>)

LocalPath == Path(TRUE, <<"pkgs", "local">>)

ReleaseRoot == Path(TRUE, <<"rel", ".", "pkgs", "">>)

BaseConfig ==
    [implicit_packages          |-> <<ImplicitOs, ImplicitArch>>,
     system_variant             |-> <<TagPlatform, TagArch, TagOs>>,
     release_packages_path      |-> ReleasePath,
     release_packages_root      |-> Absent(EmptyPath),
     release_packages_types     |-> Absent(<<>>),
     bind_use_folders_vers      |-> Absent(FALSE),
     bind_use_folders_vers_root |-> Absent(<<>>)]

ImplicitConfigs ==
    {[BaseConfig EXCEPT !.implicit_packages = ip, !.system_variant = sv] :
        ip \in SeqsUpTo(ImplicitEntries, MaxImplicit), sv \in SystemVariants}

ReleaseRoots == {Absent(EmptyPath), NoneAttr(EmptyPath), Attr(EmptyPath), Attr(ReleaseRoot)}

ReleaseTypes ==
    {Absent(<<>>), NoneAttr(<<>>), Attr(<<>>), Attr(<<"app">>), Attr(<<"app", "ext">>)}

ReleaseConfigs ==
    {[BaseConfig EXCEPT !.release_packages_root = r, !.release_packages_types = t] :
        r \in ReleaseRoots, t \in ReleaseTypes}

FolderFlags == {Absent(FALSE), NoneAttr(FALSE), Attr(FALSE), Attr(TRUE)}

FolderRoots ==
    {Absent(<<>>), NoneAttr(<<>>), Attr(<<>>), Attr(<<" ", "\r", "U+3000", "\n">>),
     Attr(<<"/", "a">>), Attr(<<" ", "/", "a", " ">>)}

FolderConfigs ==
    {[BaseConfig EXCEPT !.bind_use_folders_vers = f, !.bind_use_folders_vers_root = r] :
        f \in FolderFlags, r \in FolderRoots}

Configs == ImplicitConfigs \cup ReleaseConfigs \cup FolderConfigs

(***************************************************************************)
(* The calls.                                                              *)
(***************************************************************************)
ExeNames == {"python", "ghost"}

ExePaths ==
    {NoPath, SomePath(EmptyPath), SomePath(Path(TRUE, PythonExe)),
     SomePath(Path(TRUE, AppDir)), SomePath(Path(TRUE, <<"opt", "ghost">>)),
     SomePath(Path(TRUE, <<"opt", "..", "usr", "bin", "python">>)),
     SomePath(Path(TRUE, <<"usr", "bin", "python", "">>))}

FindExe ==
    /\ call = Idle
    /\ \E name \in ExeNames, filepath \in ExePaths :
          /\ call' = [op |-> "find_exe", name |-> name, filepath |-> filepath]
          /\ result' = find_exe(fs, name, filepath)
    /\ UNCHANGED <<config, fs>>

AppNames ==
    {Path(FALSE, <<"houdini">>), Path(FALSE, <<"cmder">>),
     Path(FALSE, <<".", "houdini", "">>), Path(FALSE, <<"houdini", "hfs17">>)}

InstallRoots ==
    {Path(TRUE, <<"opt">>), Path(TRUE, <<"opt", ".", "">>),
     Path(FALSE, <<"..", "opt">>)}

CandidateFolders ==
    {Path(TRUE, AppDir), Path(FALSE, <<"..">> \o AppDir)}
      \cup {Path(TRUE, Append(AppDir, n)) : n \in EntryNames}

TestFolders ==
    {[none |-> TRUE, holds |-> {}]}
      \cup {[none |-> FALSE, holds |-> h] : h \in SUBSET CandidateFolders}

GetAppFoldersVers ==
    /\ call = Idle
    /\ \E appname \in AppNames, install_root \in InstallRoots,
          test_folder \in TestFolders :
          LET base == NormPath(PathJoin(install_root, appname))
          IN  \E listing \in Orderings(ListDirNames(fs, base)) :
                /\ call' = [op |-> "get_app_folders_vers", appname |-> appname,
                            install_root |-> install_root,
                            test_folder |-> test_folder, listing |-> listing]
                /\ result' = get_app_folders_vers(fs, appname, install_root,
                                                  test_folder, listing)
    /\ UNCHANGED <<config, fs>>

MakeDirArgs ==
    {<<Path(TRUE, <<"opt">>), Path(FALSE, <<"houdini">>), Path(FALSE, <<"hfs18">>)>>,
     <<Path(TRUE, <<"opt", "cmder", "v1">>)>>,
     <<Path(TRUE, <<"opt", "houdini", "hfs17">>), Path(FALSE, <<"..", "logs">>)>>}

MakeDirs ==
    /\ call = Idle
    /\ \E dirs \in MakeDirArgs :
          /\ call' = [op |-> "make_dirs", dirs |-> dirs]
          /\ LET r == make_dirs(fs, dirs)
             IN  result' = [kind  |-> IF r = Raised("OSError")
                                      THEN "OSError" ELSE "path",
                            value |-> r]
          /\ fs' = make_dirs_fs(fs, dirs)
    /\ UNCHANGED config

GetImplicitSystemVariant ==
    /\ call = Idle
    /\ call' = [op |-> "get_implicit_system_variant"]
    /\ result' = [kind |-> "list", value |-> get_implicit_system_variant(config)]
    /\ UNCHANGED <<config, fs>>

RootArgs == {NoneStr, Str(<<>>), Str(<<"/", "x">>), Str(<<" ">>)}

GetUseFoldersVersRoot ==
    /\ call = Idle
    /\ \E arg \in RootArgs :
          /\ call' = [op |-> "get_use_folders_vers_root", arg |-> arg]
          /\ result' = [kind |-> "str", value |-> get_use_folders_vers_root(config, arg)]
    /\ UNCHANGED <<config, fs>>

InstallPaths == {ReleasePath, LocalPath}

PkgTypes == {NoType, Type("app"), Type("ext"), Type("plugin")}

GetInstallPath ==
    /\ call = Idle
    /\ \E install_path \in InstallPaths, pkgtype \in PkgTypes :
          /\ call' = [op |-> "get_install_path", install_path |-> install_path,
                      pkgtype |-> pkgtype]
          /\ LET r == get_install_path(config, install_path, pkgtype)
             IN  result' = [kind  |-> IF r = Raised("TypeError")
                                      THEN "TypeError" ELSE "path",
                            value |-> r]
    /\ UNCHANGED <<config, fs>>

(***************************************************************************)
(* Specifications.  Spec runs every call on one host.  SpecVersion is the  *)
(* version extraction alone; SpecFiles lets the file system vary under the *)
(* calls that read or change it, SpecConfig the configuration under the    *)
(* calls that read it.                                                     *)
(***************************************************************************)
Start == call = Idle /\ result = NoResult

Init == config = BaseConfig /\ fs = BaseFs /\ Start

Next ==
    \/ ExtractVersion
    \/ FindExe
    \/ GetAppFoldersVers
    \/ MakeDirs
    \/ GetImplicitSystemVariant
    \/ GetUseFoldersVersRoot
    \/ GetInstallPath
    \/ Return

Spec == Init /\ [][Next]_vars

NextVersion == ExtractVersion \/ Return

SpecVersion == Init /\ [][NextVersion]_vars

InitFiles == config = BaseConfig /\ fs \in FileSystems /\ Start

NextFiles == FindExe \/ GetAppFoldersVers \/ MakeDirs \/ Return

SpecFiles == InitFiles /\ [][NextFiles]_vars

InitConfig == config \in Configs /\ fs = BaseFs /\ Start

NextConfig ==
    \/ GetImplicitSystemVariant
    \/ GetUseFoldersVersRoot
    \/ GetInstallPath
    \/ Return

SpecConfig == InitConfig /\ [][NextConfig]_vars

(***************************************************************************)
(* Properties of extract_version.                                          *)
(***************************************************************************)
IsExtract == call.op = "extract_version"

Digits == {"0", "1", "2", "3", "7"}

Delims == {".", "-"}

\* The '.'- and '-'-delimited fields of a word, by the positions of the
\* delimiters: field k lies between delimiter k-1 and delimiter k.
DelimPositions(w) == {i \in 1..Len(w) : w[i] \in Delims}

NthDelim(w, k) ==
    IF k = 0 THEN 0
    ELSE IF k > Cardinality(DelimPositions(w)) THEN Len(w) + 1
    ELSE CHOOSE i \in DelimPositions(w) :
            Cardinality({j \in DelimPositions(w) : j < i}) = k - 1

DelimFields(w) ==
    [k \in 1..(Cardinality(DelimPositions(w)) + 1) |->
        SubSeq(w, NthDelim(w, k - 1) + 1, NthDelim(w, k) - 1)]

IsNumber(f) == f # <<>> /\ \A i \in 1..Len(f) : f[i] \in Digits

IsAlnum(f) == f # <<>> /\ \A i \in 1..Len(f) : f[i] \in AlnumChars

\* <num>.<num>[.<num>...] optionally followed by '.'- or '-'-delimited
\* suffix tokens
WellFormedVersion(w) ==
    LET f == DelimFields(w)
    IN  /\ Len(f) >= 2
        /\ IsNumber(f[1]) /\ IsNumber(f[2])
        /\ w[NthDelim(w, 1)] = "."
        /\ \A k \in 1..Len(f) : IsAlnum(f[k])

FirstFields(w, n) ==
    LET f == DelimFields(w)
    IN  SubSeq(f, 1, IF n < Len(f) THEN n ELSE Len(f))

\* The word the caller asked for, on the line the version was read from.
WordSelected ==
    /\ IsExtract
    /\ call.returncode = 0
    /\ result.kind # "IndexError"
    /\ InRange(SplitWs(result.line), call.word_index)

SelectedWord == Index(SplitWs(result.line), call.word_index)

\* C1: on exit code 0 every failure of the parse chain (line index, word
\* index, unparsable tokens) is reported as the 'version parse failed'
\* RezBindError; no other kind of error escapes.
C1_ParseFailuresAreRezBindError ==
    (IsExtract /\ call.returncode = 0) =>
        \/ result.kind = "Version"
        \/ result.kind = "RezBindError" /\ result.cond = "version parse failed"

\* C3: when the selected word is a well-formed version string, a Version is
\* returned whose tokens are the first version_rank '.'/'-'-delimited fields
\* of that word.
C3_TokensAreFirstRankFields ==
    (WordSelected /\ WellFormedVersion(SelectedWord)) =>
        /\ result.kind = "Version"
        /\ result.tokens = FirstFields(SelectedWord, call.version_rank)

\* 'v1 2.10.3-b.7' read with the default indices and rank gives 2, 10, 3.
C3_Witness ==
    /\ IsExtract
    /\ call.returncode = 0
    /\ call.line_index = 0 /\ call.word_index = -1 /\ call.version_rank = 3
    /\ result.kind = "Version"
    /\ result.line = WordBad \o <<" ">> \o WordVersion
    /\ result.tokens = << <<"2">>, <<"1", "0">>, <<"3">> >>

\* C7: a non-zero exit code fails with 'execution failed' carrying the exit
\* code and stderr, whatever stdout holds; no line is selected and no Version
\* is produced.
C7_NonZeroExitFails ==
    (IsExtract /\ call.returncode # 0) =>
        /\ result.kind = "RezBindError"
        /\ result.cond = "execution failed"
        /\ result.code = call.returncode
        /\ result.stderr = call.stderr
        /\ result.line = <<>>
        /\ result.tokens = <<>>

\* The tool printed a readable version but exited with 1 and 'not found'.
C7_Witness ==
    /\ IsExtract
    /\ call.returncode = 1
    /\ call.stdout = WordVersion
    /\ call.stderr = <<"n", "o", "t", " ", "f", "o", "u", "n", "d">>
    /\ result.cond = "execution failed"
    /\ result.code = 1
    /\ result.stderr = call.stderr

\* C10 as stated: the line read is element line_index of the captured stdout
\* split on newlines, stripped, for every stdout.
C10_LineOfRawOutput ==
    (IsExtract /\ call.returncode = 0 /\ result.kind # "IndexError"
        /\ InRange(Split(call.stdout, "\n"), call.line_index)) =>
        result.line = Strip(Index(Split(call.stdout, "\n"), call.line_index))

\* C10 amended: the line read is element line_index of the lines of the
\* output after the whole output has been stripped of surrounding
\* whitespace, itself stripped.
C10_LineOfStrippedOutput ==
    (IsExtract /\ call.returncode = 0
        /\ InRange(Split(Strip(call.stdout), "\n"), call.line_index)) =>
        /\ result.kind # "IndexError"
        /\ result.line =
             Strip(Index(Split(Strip(call.stdout), "\n"), call.line_index))

\* Output with a leading blank line: line 0 is the first line with text.
C10_Witness ==
    /\ IsExtract
    /\ call.returncode = 0
    /\ call.stdout = <<"\n">> \o WordVersion
    /\ call.line_index = 0
    /\ result.line = WordVersion

(***************************************************************************)
(* Properties of find_exe.                                                 *)
(***************************************************************************)
IsFindExe == call.op = "find_exe"

ExplicitPath == IsFindExe /\ ~call.filepath.none /\ call.filepath.path # EmptyPath

\* C2 as stated: a missing explicit path fails with the typed 'not found'
\* condition, an existing non-file with 'invalid target', and a regular file
\* is returned unchanged without a PATH search.
C2_ExplicitPathTypedFailures ==
    ExplicitPath =>
        /\ ~Exists(fs, call.filepath.path) => result.kind = "RezBindError"
        /\ IsDir(fs, call.filepath.path) =>
              result.kind = "RezBindError" /\ result.cond = "not a file"
        /\ IsFile(fs, call.filepath.path) =>
              /\ result.kind = "path"
              /\ result.path = call.filepath.path
              /\ ~result.searched

\* C2 amended: a missing explicit path fails with the IOError of opening it,
\* not with a RezBindError; the other two cases are as stated.
C2_ExplicitPathMissingIsIOError ==
    ExplicitPath =>
        /\ ~Exists(fs, call.filepath.path) =>
              result.kind = "IOError" /\ ~result.searched
        /\ IsDir(fs, call.filepath.path) =>
              result.kind = "RezBindError" /\ result.cond = "not a file"
        /\ IsFile(fs, call.filepath.path) =>
              /\ result.kind = "path"
              /\ result.path = call.filepath.path
              /\ ~result.searched

\* An explicit path that does not exist, for a name that is on the search
\* path.
C2_Witness ==
    /\ ExplicitPath
    /\ call.name = "python" /\ "python" \in fs.onpath
    /\ call.filepath.path = Path(TRUE, <<"opt", "ghost">>)
    /\ result.kind = "IOError"

(***************************************************************************)
(* Properties of get_app_folders_vers.                                     *)
(***************************************************************************)
IsFolders == call.op = "get_app_folders_vers"

BasePath == NormPath(PathJoin(call.install_root, call.appname))

BaseIsDir == IsFolders /\ IsDir(fs, BasePath)

BaseAccepted == ~call.test_folder.none /\ BasePath \in call.test_folder.holds

\* The immediate subdirectories of the base, as normalized paths.
BaseNode == Resolve(fs, BasePath).node

SubDirs ==
    {NormPath(PathJoin(BasePath, Path(FALSE, <<d[Len(d)]>>))) :
        d \in {x \in fs.dirs : /\ Len(x) = Len(BaseNode) + 1
                               /\ SubSeq(x, 1, Len(BaseNode)) = BaseNode}}

Elements(l) == {l[i] : i \in 1..Len(l)}

\* C4: with an existing base directory, the result is [base] alone (nothing
\* listed, no subfolder tested) when test_folder holds for the base;
\* otherwise it is, as a set, the normalized immediate subdirectories for
\* which test_folder holds (all of them without test_folder), never a
\* non-directory.
C4_FoldersAreAcceptedSubDirs ==
    BaseIsDir =>
        /\ result.kind = "list"
        /\ BaseAccepted =>
              /\ result.value = <<BasePath>>
              /\ ~result.listed
              /\ result.tested = <<BasePath>>
        /\ ~BaseAccepted =>
              /\ Elements(result.value) =
                    {d \in SubDirs : call.test_folder.none
                                       \/ d \in call.test_folder.holds}
              /\ \A d \in Elements(result.value) : IsDir(fs, d)

\* A base with one directory and one file, the predicate holding for both:
\* only the directory is returned.
C4_Witness ==
    /\ BaseIsDir /\ ~BaseAccepted
    /\ Append(AppDir, "hfs17") \in fs.dirs
    /\ Append(AppDir, "hfs18") \in fs.files
    /\ Path(TRUE, Append(AppDir, "hfs18")) \in call.test_folder.holds
    /\ result.value = <<Path(TRUE, Append(AppDir, "hfs17"))>>

\* C8: when the base does not exist or is not a directory the call fails
\* with 'base path missing'; test_folder is not invoked, nothing is listed
\* and no list is returned.
C8_MissingBaseFails ==
    (IsFolders /\ ~BaseIsDir) =>
        /\ result.kind = "RezBindError"
        /\ result.cond = "base path missing"
        /\ result.tested = <<>>
        /\ ~result.listed
        /\ result.value = <<>>

\* The base is a regular file that the predicate would accept.
C8_Witness ==
    /\ IsFolders
    /\ IsFile(fs, BasePath)
    /\ BaseAccepted
    /\ result.kind = "RezBindError"

(***************************************************************************)
(* Properties of the configuration driven resolvers.                       *)
(***************************************************************************)
IsRoot == call.op = "get_use_folders_vers_root"

ArgGiven == ~call.arg.none /\ call.arg.val # <<>>

FlagSet == config.bind_use_folders_vers = Attr(TRUE)

NonBlank(a) ==
    a.has /\ ~a.none /\ \E i \in 1..Len(a.val) : a.val[i] \notin Whitespace

\* C5: a non-empty arg wins over the configuration; an absent or empty arg
\* is returned unchanged when the flag is unset; with the flag set the
\* configured root is returned when present and non-blank, '/opt' otherwise.
C5_RootPrecedence ==
    IsRoot =>
        /\ ArgGiven => result.value = call.arg
        /\ (~ArgGiven /\ ~FlagSet) => result.value = call.arg
        /\ (~ArgGiven /\ FlagSet) =>
              result.value =
                 IF NonBlank(config.bind_use_folders_vers_root)
                 THEN Str(config.bind_use_folders_vers_root.val)
                 ELSE Str(<<"/", "o", "p", "t">>)

\* An explicit root while the configuration has the flag and a root set.
C5_Witness ==
    /\ IsRoot
    /\ call.arg = Str(<<"/", "x">>)
    /\ FlagSet
    /\ config.bind_use_folders_vers_root = Attr(<<"/", "a">>)
    /\ result.value = Str(<<"/", "x">>)

IsInstall == call.op = "get_install_path"

ReleaseRewrite ==
    /\ call.install_path = config.release_packages_path
    /\ ~call.pkgtype.none
    /\ config.release_packages_root.has
    /\ ~config.release_packages_root.none
    /\ config.release_packages_root.val # EmptyPath
    /\ config.release_packages_types.has
    /\ ~config.release_packages_types.none
    /\ config.release_packages_types.val # <<>>
    /\ call.pkgtype.name \in Elements(config.release_packages_types.val)

\* C6: the path is rewritten to normalize(join(release_packages_root,
\* pkgtype)) exactly when install_path is the release path, pkgtype is given,
\* the root is set and pkgtype is one of the non-empty release types; in
\* every other case, for any configuration, install_path is returned
\* unchanged.
C6_InstallPathRewrite ==
    IsInstall =>
        /\ ReleaseRewrite =>
              result.value = NormPath(PathJoin(config.release_packages_root.val,
                                               Path(FALSE, <<call.pkgtype.name>>)))
        /\ ~ReleaseRewrite => result.value = call.install_path

IsImplicit == call.op = "get_implicit_system_variant"

\* Where "==" first occurs in an entry, and where '-' first occurs in a tag.
DoubleEqualsAt(e) == {i \in 1..(Len(e) - 1) : e[i] = "=" /\ e[i + 1] = "="}

DashAt(t) == {i \in 1..Len(t) : t[i] = "-"}

Least(S) == CHOOSE i \in S : \A j \in S : i <= j

\* An entry of the shape ~name==value
Shaped(e) == e # <<>> /\ e[1] = "~" /\ DoubleEqualsAt(e) # {}

NameOf(e) == SubSeq(e, 2, Least(DoubleEqualsAt(e)) - 1)

TagPrefix(t) == IF DashAt(t) = {} THEN t ELSE SubSeq(t, 1, Least(DashAt(t)) - 1)

ConfiguredNames == {NameOf(e) : e \in Elements(config.implicit_packages)}

\* C9: with implicit packages of the shape ~name==value, the result is the
\* subsequence of the system variant, in its order, of the tags whose prefix
\* before the first '-' is the name of a configured implicit package.
C9_ImplicitVariantFilter ==
    (IsImplicit /\ \A e \in Elements(config.implicit_packages) : Shaped(e)) =>
        result.value =
            SelectSeq(config.system_variant,
                      LAMBDA t : TagPrefix(t) \in ConfiguredNames)

\* Only 'os' is implicit: of platform, os and 's' tags only the os tag stays.
C9_Witness ==
    /\ IsImplicit
    /\ config.implicit_packages = <<ImplicitOs>>
    /\ config.system_variant = <<TagPlatform, TagOs, TagS>>
    /\ result.value = <<TagOs>>

=============================================================================
